---- MODULE Spec2Model ----
(***************************************************************************)
(* A model of slam_gmapping.cpp (the ROS 2 port of the gmapping wrapper):  *)
(* the scan callback (laserCallback, initMapper, getOdomPose, addScan,     *)
(* updateMap), the map service (mapCallback) and the transform broadcast   *)
(* thread (publishLoop, publishTransform).                                 *)
(*                                                                         *)
(* Numbers.  Lengths and ranges are fixed point, 1000 units to the metre   *)
(* (occ_thresh_ 0.25 is 250, a cell probability of 1.0 is 1000).  Angles   *)
(* are whole quarter turns, so that rigid transforms compose exactly on    *)
(* the integers.  Time is in whole seconds.                                *)
(*                                                                         *)
(* External collaborators (tf2 buffer, GMapping::GridSlamProcessor,        *)
(* GMapping::ScanMatcherMap) are not part of the repository: what they     *)
(* return is an input of the action that calls them, drawn with \E.        *)
(***************************************************************************)
EXTENDS Integers, Sequences, FiniteSets, TLC

VARIABLES
  \* ---- configuration, set by init() (parameters of the node)
  throttle_scans_,            \* line 185
  transform_publish_period_,  \* line 194
  \* ---- members of SlamGMapping
  laser_count_,               \* line 142/157
  got_first_scan_,            \* line 178
  got_map_,                   \* line 179
  laser_frame_,               \* line 439
  gsp_laser_beam_count_,      \* line 522
  do_reverse_range_,          \* lines 528/534
  centered_laser_pose_,       \* lines 529/535
  laser_angles_,              \* lines 540-547
  maxRange_,                  \* line 561 (maxUrange_ is the same value, line 563)
  gsp_,                       \* the filter: [init, initialPose, reach]
  map_to_odom_,               \* the shared correction: [basis, origin]
  map_,                       \* the published grid: [width, height, origin, data]
  bounds_,                    \* [xmin, ymin, xmax, ymax]: xmin_ .. ymax_
  last_map_update,            \* the static local of laserCallback, line 705
  map_to_odom_mutex_,         \* "free" or the name of the holder
  map_mutex_,                 \* "free" or the name of the holder
  \* ---- the scan callback in flight
  pc_scan,                    \* position of laserCallback
  scan,                       \* the message being handled (NoScan when idle)
  outcome,                    \* the path the callback took
  reading,                    \* what addScan handed to gsp_->processScan
  odom_pose,                  \* local of laserCallback, line 715
  mpose,                      \* local of laserCallback, line 721
  new_corr,                   \* the value of (odom_to_laser * laser_to_map).inverse()
  answers,                    \* what tf2 and the filter answered in this callback
  smap,                       \* local working grid of updateMap, line 804
  entropy,                    \* local of updateMap, line 785, and the weights read
  walk,                       \* locals of updateMap, lines 780-824: the best
                              \* particle's tree, the nodes visited and registered
  log_scan,                   \* lines of the log statements this callback ran
  \* ---- the broadcast thread
  pc_tf,                      \* position of publishLoop / publishTransform
  msg,                        \* the message publishTransform builds
  broadcast,                  \* the last message handed to tfB_->sendTransform
  log_tf,                     \* lines of the log statements publishLoop ran
  \* ---- the map service
  pc_srv,                     \* position of mapCallback
  response,                   \* the last answer of mapCallback
  \* ---- the environment
  arrived,                    \* number of scans delivered to laserCallback so far
  settled,                    \* from now on tf2 answers every lookup, and with a
                              \* planar mount
  \* ---- history
  committed,                  \* the last value of map_to_odom_ written in full
  published,                  \* the grid as the last completed rebuild left it
  built_from                  \* the trajectory extent that rebuild registered

vars == << throttle_scans_, transform_publish_period_, settled, laser_count_,
           got_first_scan_, got_map_, laser_frame_, gsp_laser_beam_count_,
           do_reverse_range_, centered_laser_pose_, laser_angles_, maxRange_,
           gsp_, map_to_odom_, map_, bounds_, last_map_update,
           map_to_odom_mutex_, map_mutex_, pc_scan, scan, outcome, reading,
           odom_pose, mpose, new_corr, answers, smap, pc_tf, msg, broadcast,
           pc_srv, response, arrived, committed, entropy, walk, log_scan, log_tf,
           published, built_from >>

-----------------------------------------------------------------------------
(* Bounds of the model *)

\* largest number of nodes of a trajectory tree
MaxNodes == 3
\* number of scans delivered in one run
MaxScans == 3
\* largest throttle factor tried
MaxThrottle == 2
\* largest beam count of a scan
MaxBeams == 3
\* largest extent in x, in columns, of the readings along a trajectory
MaxGrid == 2
\* largest number of particles of the filter
MaxParticles == 2

(* Program constants *)

\* occ_thresh_ = 0.25, in thousandths
OccThresh == 250
\* map_update_interval_ = 5.0 s
MapUpdateInterval == 5
\* the planar-mount tolerance 0.001, in ten-thousandths (up.z is kept in
\* ten-thousandths so that -1.0005 is a number of the model)
PlanarTolerance == 10
\* 1.0 in ten-thousandths
UpOne == 10000
\* a cell probability of 1.0, in thousandths
ProbOne == 1000
\* the margin 0.01 m taken off range_max for maxRange_, in thousandths
RangeMargin == 10

-----------------------------------------------------------------------------
(* Arithmetic helpers *)

Abs(x) == IF x < 0 THEN -x ELSE x

\* a quarter-turn count normalised to 0..3
Turn(k) == k % 4

\* the vector v rotated by k quarter turns about z
Rot(k, v) ==
  CASE Turn(k) = 0 -> v
    [] Turn(k) = 1 -> << -v[2], v[1] >>
    [] Turn(k) = 2 -> << -v[1], -v[2] >>
    [] Turn(k) = 3 -> << v[2], -v[1] >>

(* tf2::Transform restricted to what this node builds: a rotation          *)
(* Rz(yaw) * Rx(pi)^flip (flip is TRUE for an upside-down frame) and a      *)
(* translation in the plane.                                               *)
\* tf2::Transform(createQuaternionFromRPY(roll, 0, yaw), Vector3(x, y, 0))
Xf(flip, yaw, x, y) == [flip |-> flip, yaw |-> Turn(yaw), origin |-> <<x, y>>]

Identity == Xf(FALSE, 0, 0, 0)

\* the translation-plane action of Rz(yaw) Rx(pi)^flip on (x, y, 0)
RotBy(t, v) == Rot(t.yaw, IF t.flip THEN << v[1], -v[2] >> ELSE v)

\* tf2::Transform::operator* : (a * b)(p) = a(b(p))
XfMul(a, b) ==
  [flip   |-> (a.flip /= b.flip),
   yaw    |-> Turn(IF a.flip THEN a.yaw - b.yaw ELSE a.yaw + b.yaw),
   origin |-> << a.origin[1] + RotBy(a, b.origin)[1],
                 a.origin[2] + RotBy(a, b.origin)[2] >>]

\* tf2::Transform::inverse(): basis transposed, origin = -(basis^T * origin)
XfInverse(t) ==
  LET inv == [flip |-> t.flip,
              yaw |-> Turn(IF t.flip THEN t.yaw ELSE -t.yaw),
              origin |-> <<0, 0>>]
      o == RotBy(inv, t.origin)
  IN [inv EXCEPT !.origin = << -o[1], -o[2] >>]

-----------------------------------------------------------------------------
(* Messages and the answers of the external collaborators *)

NoScan == [frame_id |-> "none"]
NoTransform == [failed |-> TRUE]
NoPose == [x |-> 0, y |-> 0, theta |-> 0]
NoReading == << >>

\* GMapping::OrientedPoint
Pose(x, y, theta) == [x |-> x, y |-> y, theta |-> Turn(theta)]

\* sensor_msgs::msg::LaserScan
Scan(stamp, amin, amax, ainc, rmin, rmax, ranges) ==
  [frame_id |-> "laser", stamp |-> stamp,
   angle_min |-> amin, angle_max |-> amax, angle_increment |-> ainc,
   range_min |-> rmin, range_max |-> rmax, ranges |-> ranges]

\* all sequences over S of length n
SeqsOfLen(S, n) == [1..n -> S]

-----------------------------------------------------------------------------
(* getOdomPose, lines 389-434.  lookup is the answer of                    *)
(* buffer_.lookupTransform(odom_frame_, laser_frame_, ...): NoTransform    *)
(* when it throws.                                                          *)

\* line 418 and lines 426-432: odom_pose = transform * centered_laser_pose_,
\* gmap_pose = (origin.x, origin.y, yaw of its rotation)
OdomPoseOf(lookup, centered) ==
  LET p == XfMul(lookup, centered)
  IN Pose(p.origin[1], p.origin[2], p.yaw)

\* the return value of getOdomPose
getOdomPoseOK(lookup) == lookup /= NoTransform

-----------------------------------------------------------------------------
(* initMapper, lines 436-619.  mount is the answer of                      *)
(* buffer_.lookupTransform(base_frame_, laser_frame_, ...): rzz is the zz   *)
(* entry of its rotation matrix and tz the z of its translation, both in    *)
(* ten-thousandths.                                                         *)

\* lines 480-503: v = (0, 0, 1 + laser_pose.z), up = transform * v
UpZ(mount) == (mount.rzz * (UpOne + mount.tz)) \div UpOne + mount.tz

\* as PlanarOK, with a deviation equal to the tolerance rejected too
PlanarOKStrict(upz) == Abs(Abs(upz) - UpOne) < PlanarTolerance

\* line 515, negated: the mount passes the planar check
PlanarOK(upz) == ~(Abs(Abs(upz) - UpOne) > PlanarTolerance)

\* as initMapperOK, without the planar check of lines 515-520
initMapperIgnoresMount(env) == env.base_ok1 /\ env.base_ok2

\* as initMapperOK, for an initMapper that gives up when the initial pose
\* is not available
initMapperNeedsOdom(env) ==
  /\ env.base_ok1
  /\ env.base_ok2
  /\ PlanarOK(UpZ(env.mount))
  /\ getOdomPoseOK(env.odom_init)

\* initMapper returns true: both base-frame lookups answer (lines 449-477,
\* 483-512) and the mount is planar (lines 515-520)
initMapperOK(env) ==
  /\ env.base_ok1
  /\ env.base_ok2
  /\ PlanarOK(UpZ(env.mount))

\* line 524
AngleCenter(s) == (s.angle_min + s.angle_max) \div 2

\* as DoReverseRange, with the orientation of the mount left out
DoReverseRangeUpward(s, upz) == s.angle_min > s.angle_max

\* lines 526-537
DoReverseRange(s, upz) ==
  IF upz > 0 THEN s.angle_min > s.angle_max ELSE s.angle_min < s.angle_max

\* lines 526-537
CenteredLaserPose(s, upz) ==
  IF upz > 0 THEN Xf(FALSE, AngleCenter(s), 0, 0)
             ELSE Xf(TRUE, -AngleCenter(s), 0, 0)

\* lines 540-547: theta starts at -|angle_min - angle_max|/2 and grows by
\* |angle_increment| per beam
LaserAngles(s) ==
  [i \in 1..Len(s.ranges) |->
     -(Abs(s.angle_min - s.angle_max) \div 2) + (i - 1) * Abs(s.angle_increment)]

\* lines 586-592: the initial pose handed to GridSlamProcessor::init
InitialPose(env, centered) ==
  IF getOdomPoseOK(env.odom_init) THEN OdomPoseOf(env.odom_init, centered)
                                   ELSE Pose(0, 0, 0)

-----------------------------------------------------------------------------
(* addScan, lines 621-684 *)

\* as FilterShort, with a reading equal to range_min taken for short too
FilterShortInclusive(r, range_min, range_max) ==
  IF r <= range_min THEN range_max ELSE r

\* line 642-645 / 652-655: a short reading becomes range_max
FilterShort(r, range_min, range_max) ==
  IF r < range_min THEN range_max ELSE r

\* as ReversedRanges, without the substitution of short readings
ReversedRangesUnfiltered(s) ==
  [i \in 1..Len(s.ranges) |-> s.ranges[Len(s.ranges) - i + 1]]

\* lines 635-646: the reversed copy, ranges_double[i] from ranges[n - i - 1]
ReversedRanges(s) ==
  LET n == Len(s.ranges)
  IN [i \in 1..n |-> FilterShort(s.ranges[n - i + 1], s.range_min, s.range_max)]

\* lines 647-657: the forward copy
ForwardRanges(s) ==
  [i \in 1..Len(s.ranges) |-> FilterShort(s.ranges[i], s.range_min, s.range_max)]

\* lines 632-657: ranges_double
RangesDouble(s, do_reverse) ==
  IF do_reverse THEN ReversedRanges(s) ELSE ForwardRanges(s)

\* as BeamCountOK, with the comparison left out
BeamCountUnchecked(s, beam_count) == TRUE

\* line 628, negated
BeamCountOK(s, beam_count) == Len(s.ranges) = beam_count

-----------------------------------------------------------------------------
(* laserCallback, lines 721-730: the correction *)

\* tf2::Transform(createQuaternionFromRPY(0, 0, p.theta), Vector3(p.x, p.y, 0))
Rigid(p) == Xf(FALSE, p.theta, p.x, p.y)

\* as Correction, with the two factors of the product exchanged
CorrectionSwapped(m, o) ==
  LET laser_to_map == XfInverse(Rigid(m))
      odom_to_laser == Rigid(o)
  IN XfInverse(XfMul(laser_to_map, odom_to_laser))

\* lines 726-730: (odom_to_laser * laser_to_map).inverse()
Correction(m, o) ==
  LET laser_to_map == XfInverse(Rigid(m))
      odom_to_laser == Rigid(o)
  IN XfInverse(XfMul(odom_to_laser, laser_to_map))

-----------------------------------------------------------------------------
(* The inputs tried *)

\* scan stamps, in seconds
Stamps == {1, 6, 7}

\* (angle_min, angle_max, angle_increment), in quarter turns: a forward
\* sweep and the same sweep reported backwards
Sweeps == { <<-1, 1, 1>>, <<1, -1, -1>> }

\* (range_min, range_max) of a scan, in thousandths of a metre
Limits == { <<100, 10000>> }

\* beam counts of the scans
BeamCounts == (MaxBeams - 1)..MaxBeams

\* the scans built from stamps T and range values V
ScansOver(T, V) ==
  { Scan(t, w[1], w[2], w[3], l[1], l[2], r) :
      t \in T, w \in Sweeps, l \in Limits,
      r \in UNION { SeqsOfLen(V, n) : n \in BeamCounts } }

\* answers of lookupTransform(base_frame_, laser_frame_): upward, upside
\* down, tilted (up.z = 0.95), and upside down at the edge of the tolerance
\* (up.z = -1.0005)
Mounts ==
  { [rzz |-> 10000, tz |-> 0], [rzz |-> -10000, tz |-> 0],
    [rzz |-> 9500, tz |-> 0], [rzz |-> -9995, tz |-> -20000] }

\* more answers of that lookup, around the tolerance: up.z = 0.999 and
\* 1.001 (a deviation of exactly 0.001), 0.9989 and 1.0012 (just beyond it);
\* and a sensor 0.3 m above the base, upward and upside down
MountsEdge ==
  Mounts \cup { [rzz |-> 9990, tz |-> 0], [rzz |-> 10000, tz |-> 5],
                [rzz |-> 9989, tz |-> 0], [rzz |-> 10000, tz |-> 6],
                [rzz |-> 10000, tz |-> 3000], [rzz |-> -10000, tz |-> 3000] }

\* extents in x of the readings along a trajectory: from the initial
\* bounds to MaxGrid columns, to the left or to the right of them
Reaches ==
  { r \in ((1 - MaxGrid)..0) \X (1..MaxGrid) : r[2] - r[1] <= MaxGrid }

\* weights of the particles
Weights == (-2)..2

\* the weights of up to MaxParticles particles
WeightVectors == UNION { SeqsOfLen(Weights, n) : n \in 1..MaxParticles }

\* answers of lookupTransform(odom_frame_, laser_frame_)
OdomLookups == { NoTransform, Xf(FALSE, 0, 0, 0), Xf(FALSE, 1, 1, 0), Xf(TRUE, 0, 0, 0) }

\* best-particle poses the filter may report after processScan
BestPoses == { Pose(0, 0, 0), Pose(1, 0, 1) }

\* as NeedsInit, with got_first_scan_ never consulted
NeedsInitAlways == TRUE

\* line 708: initMapper is to be called
NeedsInit == ~got_first_scan_

\* the answers initMapper reads; one dummy when it is not called
NoInitEnv == [base_ok1 |-> FALSE, base_ok2 |-> FALSE,
              mount |-> [rzz |-> 0, tz |-> 0], odom_init |-> NoTransform]

\* what the callback was answered: by initMapper's lookups (e) when it was
\* called, by addScan's lookup and by processScan when it was asked
NoAnswers == [init_called |-> FALSE, e |-> NoInitEnv, add_called |-> FALSE,
              lookup |-> NoTransform, asked |-> FALSE, accepted |-> FALSE]

InitEnvs(in) ==
  IF ~NeedsInit THEN { NoInitEnv }
  ELSE [base_ok1 : BOOLEAN, base_ok2 : BOOLEAN, mount : in.mounts,
        odom_init : in.lookups]

-----------------------------------------------------------------------------
(* The state after construction: the constructor (lines 140-162), init()   *)
(* (lines 165-262) and startLiveSlam() (lines 265-285).                    *)

NoMsg == [translation |-> << >>, rotation |-> << >>]
NoMap == [width |-> 0, height |-> 0, origin |-> <<0, 0>>, data |-> << >>]
NoSmap == [sizeX |-> 0]
NoResponse == [ok |-> FALSE]
\* the best particle's trajectory before any scan: nothing outside the
\* initial bounds (lines 240-246)
NoReach == << 0, 1 >>
\* entropy.data before computePoseEntropy has run
NoEntropy == [weights |-> << >>,
              data |-> [kind |-> "unset", value |-> 0, terms |-> {}]]

\* walk before updateMap has read the best particle (line 780)
NoWalk == [tree |-> << >>, visited |-> << >>, registered |-> << >>, log |-> {}]

\* the state after construction, with initial bounds of one column and
\* rows rows
InitAt(rows) ==
  /\ throttle_scans_ \in 1..MaxThrottle
  /\ transform_publish_period_ \in {0, 50}
  /\ laser_count_ = 0
  /\ got_first_scan_ = FALSE
  /\ got_map_ = FALSE
  /\ laser_frame_ = ""
  /\ gsp_laser_beam_count_ = 0
  /\ do_reverse_range_ = FALSE
  /\ centered_laser_pose_ = Identity
  /\ laser_angles_ = << >>
  /\ maxRange_ = 0
  /\ gsp_ = [init |-> FALSE, initialPose |-> NoPose, reach |-> NoReach]
  /\ map_to_odom_ = Identity
  /\ map_ = NoMap
  /\ bounds_ = [xmin |-> 0, ymin |-> 0, xmax |-> 1, ymax |-> rows]
  /\ last_map_update = 0
  /\ map_to_odom_mutex_ = "free"
  /\ map_mutex_ = "free"
  /\ pc_scan = "idle"
  /\ scan = NoScan
  /\ outcome = "none"
  /\ reading = NoReading
  /\ odom_pose = NoPose
  /\ mpose = NoPose
  /\ new_corr = Identity
  /\ answers = NoAnswers
  /\ smap = NoSmap
  /\ pc_tf = "start"
  /\ msg = NoMsg
  /\ broadcast = NoMsg
  /\ pc_srv = "idle"
  /\ response = NoResponse
  /\ arrived = 0
  /\ settled = FALSE
  /\ committed = Identity
  /\ entropy = NoEntropy
  /\ walk = NoWalk
  /\ log_scan = {}
  /\ log_tf = {}
  /\ published = NoMap
  /\ built_from = NoReach

Init == InitAt(1)

\* what no step of laserCallback before updateMap touches
MapVars == << got_map_, map_, bounds_, last_map_update, map_mutex_, smap,
             entropy, walk >>
\* the broadcast thread's and the map service's own state
OtherThreads == << pc_tf, msg, broadcast, log_tf, pc_srv, response >>
\* the configuration and the phase of the environment, which no step of
\* the node changes, and the history of complete writes
Config == << throttle_scans_, transform_publish_period_, settled >>
History == << committed, published, built_from >>
\* what initMapper sets
Geometry == << got_first_scan_, laser_frame_, gsp_laser_beam_count_,
               do_reverse_range_, centered_laser_pose_, laser_angles_,
               maxRange_ >>

-----------------------------------------------------------------------------
(* laserCallback, lines 686-745, up to the point where it waits for        *)
(* map_to_odom_mutex_ (line 729).  s is the scan delivered; the answers of  *)
(* tf2 and of the filter are the other parameters.                          *)

\* line 702, negated: the scan passes the throttle
PassesThrottle(count) == (count % throttle_scans_) = 0

\* as addScanResult, with the return value of processScan dropped
addScanIgnoresFilter(odom_ok, count_ok, accepted) == odom_ok /\ count_ok

\* the return value of addScan, lines 624-630 and 683
addScanResult(odom_ok, count_ok, accepted) == odom_ok /\ count_ok /\ accepted

\* the log statements initMapper runs when it is answered e: line 474 or
\* 509 on a failed lookup, 505 and 517 on a mount that is not planar,
\* otherwise 505, 530 or 536, 549, 551 and 616, with 422 (in getOdomPose)
\* and 590 when the initial pose is not available
initMapperLog(e) ==
  IF ~e.base_ok1 THEN {474}
  ELSE IF ~e.base_ok2 THEN {509}
  ELSE IF ~PlanarOK(UpZ(e.mount)) THEN {505, 517}
  ELSE {505, 549, 551, 616}
       \cup (IF UpZ(e.mount) > 0 THEN {530} ELSE {536})
       \cup (IF getOdomPoseOK(e.odom_init) THEN {} ELSE {422, 590})

\* the log statements addScan runs: 422 (in getOdomPose) when the lookup
\* fails, none on a beam-count mismatch (lines 628-629), otherwise 637
\* when the scan is reversed, 675 and 681
addScanLog(odom_ok, count_ok, do_reverse) ==
  IF ~odom_ok THEN {422}
  ELSE IF ~count_ok THEN {}
  ELSE {675, 681} \cup (IF do_reverse THEN {637} ELSE {})

\* lines 719-724 when addScan returned true, line 744 otherwise
laserCallbackLog(ok) == IF ok THEN {719, 722, 723, 724} ELSE {744}

Min(a, b) == IF a < b THEN a ELSE b
Max(a, b) == IF a < b THEN b ELSE a

\* a scan is delivered to the callback
Deliver(s) ==
  /\ arrived' = arrived + 1
  /\ scan' = s

\* the subscription can hand a scan to the callback
CanDeliver == pc_scan = "idle" /\ arrived < MaxScans

\* lines 694-699: canTransform answers false, the callback returns
LaserCallbackNoTransform(in) ==
  /\ CanDeliver
  /\ \E s \in in.scans :
       /\ Deliver(s)
       /\ outcome' = "no_transform"
       /\ answers' = NoAnswers
       /\ log_scan' = {}
       /\ pc_scan' = "ret"
  /\ UNCHANGED << Config, History, laser_count_, Geometry, gsp_, map_to_odom_,
                  map_to_odom_mutex_, MapVars, reading, odom_pose, mpose,
                  new_corr, OtherThreads >>

\* lines 701-703: the scan is counted and dropped by the throttle
LaserCallbackThrottled(in) ==
  /\ CanDeliver
  /\ laser_count_' = laser_count_ + 1
  /\ ~PassesThrottle(laser_count_')
  /\ \E s \in in.scans :
       /\ Deliver(s)
       /\ outcome' = "throttled"
       /\ answers' = NoAnswers
       /\ log_scan' = {}
       /\ pc_scan' = "ret"
  /\ UNCHANGED << Config, History, Geometry, gsp_, map_to_odom_, map_to_odom_mutex_,
                  MapVars, reading, odom_pose, mpose, new_corr, OtherThreads >>

\* lines 708-711 with initMapper returning false (lines 472-477, 507-512,
\* 515-520): only laser_frame_ (line 439) has been written
LaserCallbackInitFailed(in) ==
  /\ CanDeliver
  /\ laser_count_' = laser_count_ + 1
  /\ PassesThrottle(laser_count_')
  /\ NeedsInit
  /\ \E s \in in.scans, e \in InitEnvs(in) :
       /\ ~initMapperOK(e)
       /\ Deliver(s)
       /\ laser_frame_' = s.frame_id
       /\ outcome' = "init_failed"
       /\ answers' = [NoAnswers EXCEPT !.init_called = TRUE, !.e = e]
       /\ log_scan' = initMapperLog(e)
       /\ pc_scan' = "ret"
  /\ UNCHANGED << Config, History, got_first_scan_, gsp_laser_beam_count_,
                  do_reverse_range_, centered_laser_pose_, laser_angles_,
                  maxRange_, gsp_, map_to_odom_, map_to_odom_mutex_, MapVars,
                  reading, odom_pose, mpose, new_corr, OtherThreads >>

\* lines 708-713 and 717-727 for scan s: initMapper (when called, with the
\* answers e) returns true, then addScan runs.  lookup is the answer
\* addScan's getOdomPose gets, accepted the return value of
\* gsp_->processScan, mp the best particle's pose afterwards and r the
\* extent in x of the readings along its trajectory.
AddScanStep(s, e, lookup, accepted, mp, r) ==
  LET upz == UpZ(e.mount)
      centered == IF NeedsInit THEN CenteredLaserPose(s, upz)
                               ELSE centered_laser_pose_
      beam_count == IF NeedsInit THEN Len(s.ranges) ELSE gsp_laser_beam_count_
      do_reverse == IF NeedsInit THEN DoReverseRange(s, upz)
                                 ELSE do_reverse_range_
      odom_ok == getOdomPoseOK(lookup)
      count_ok == BeamCountOK(s, beam_count)
      called == odom_ok /\ count_ok
      ok == addScanResult(odom_ok, count_ok, accepted)
      filter == IF NeedsInit
                THEN [init |-> TRUE, initialPose |-> InitialPose(e, centered),
                      reach |-> gsp_.reach]
                ELSE gsp_
  IN
  /\ called \/ (~accepted /\ mp = Pose(0, 0, 0))  \* the filter is not asked
  /\ NeedsInit => initMapperOK(e)
  /\ Deliver(s)
  /\ got_first_scan_' = TRUE
  /\ laser_frame_' = IF NeedsInit THEN s.frame_id ELSE laser_frame_
  /\ gsp_laser_beam_count_' = beam_count
  /\ do_reverse_range_' = do_reverse
  /\ centered_laser_pose_' = centered
  /\ laser_angles_' = IF NeedsInit THEN LaserAngles(s) ELSE laser_angles_
  /\ maxRange_' = IF NeedsInit THEN s.range_max - RangeMargin ELSE maxRange_
  /\ gsp_' = IF ok THEN [filter EXCEPT !.reach = r] ELSE filter
  /\ log_scan' = (IF NeedsInit THEN initMapperLog(e) ELSE {})
                    \cup addScanLog(odom_ok, count_ok, do_reverse)
                    \cup laserCallbackLog(ok)
  /\ odom_pose' = IF odom_ok THEN OdomPoseOf(lookup, centered) ELSE NoPose
  /\ reading' = IF called THEN RangesDouble(s, do_reverse) ELSE NoReading
  /\ answers' = [init_called |-> NeedsInit, e |-> e, add_called |-> TRUE,
                 lookup |-> lookup, asked |-> called, accepted |-> accepted]
  /\ IF ok
     THEN /\ mpose' = mp
          /\ new_corr' = Correction(mp, odom_pose')
          /\ outcome' = "processed"
          /\ pc_scan' = "corr_lock"
     ELSE /\ mpose' = mpose
          /\ new_corr' = new_corr
          /\ outcome' = IF ~odom_ok THEN "odom_failed"
                        ELSE IF ~count_ok THEN "beam_mismatch"
                        ELSE "filter_rejected"
          /\ pc_scan' = "ret"

LaserCallbackAddScan(in) ==
  /\ CanDeliver
  /\ laser_count_' = laser_count_ + 1
  /\ PassesThrottle(laser_count_')
  /\ \E s \in in.scans, e \in InitEnvs(in), lookup \in in.lookups,
        accepted \in BOOLEAN, mp \in in.poses, r \in in.reaches :
       AddScanStep(s, e, lookup, accepted, mp, r)
  /\ UNCHANGED << Config, History, map_to_odom_, map_to_odom_mutex_, MapVars,
                  OtherThreads >>

-----------------------------------------------------------------------------
(* laserCallback, lines 729-731: the correction is written under           *)
(* map_to_odom_mutex_.  The assignment copies the basis, then the origin.  *)

\* as CanLock, for a lock that never waits
CanLockAlways(m) == TRUE

\* boost::mutex::lock returns only when nobody holds the mutex
CanLock(m) == m = "free"

ScanLocals == << scan, outcome, reading, odom_pose, mpose, new_corr,
                answers >>

\* line 729
CorrLock ==
  /\ pc_scan = "corr_lock"
  /\ CanLock(map_to_odom_mutex_)
  /\ map_to_odom_mutex_' = "scan"
  /\ pc_scan' = "corr_write_basis"
  /\ UNCHANGED << Config, History, laser_count_, Geometry, gsp_, map_to_odom_, MapVars,
                  ScanLocals, log_scan, OtherThreads, arrived >>

\* line 730, first half
CorrWriteBasis ==
  /\ pc_scan = "corr_write_basis"
  /\ map_to_odom_' = [map_to_odom_ EXCEPT !.flip = new_corr.flip,
                                          !.yaw = new_corr.yaw]
  /\ pc_scan' = "corr_write_origin"
  /\ UNCHANGED << Config, History, laser_count_, Geometry, gsp_, map_to_odom_mutex_,
                  MapVars, ScanLocals, log_scan, OtherThreads, arrived >>

\* line 730, second half
CorrWriteOrigin ==
  /\ pc_scan = "corr_write_origin"
  /\ map_to_odom_' = [map_to_odom_ EXCEPT !.origin = new_corr.origin]
  /\ committed' = map_to_odom_'
  /\ pc_scan' = "corr_unlock"
  /\ UNCHANGED << Config, published, built_from, laser_count_, Geometry, gsp_, map_to_odom_mutex_,
                  MapVars, ScanLocals, log_scan, OtherThreads, arrived >>

\* as CorrUnlock, for a callback that goes on without releasing the lock
CorrUnlockKept ==
  /\ pc_scan = "corr_unlock"
  /\ pc_scan' = "map_check"
  /\ UNCHANGED << Config, History, laser_count_, Geometry, gsp_, map_to_odom_,
                  map_to_odom_mutex_, MapVars, ScanLocals, log_scan,
                  OtherThreads, arrived >>

\* line 731
CorrUnlock ==
  /\ pc_scan = "corr_unlock"
  /\ map_to_odom_mutex_' = "free"
  /\ pc_scan' = "map_check"
  /\ UNCHANGED << Config, History, laser_count_, Geometry, gsp_, map_to_odom_, MapVars,
                  ScanLocals, log_scan, OtherThreads, arrived >>

-----------------------------------------------------------------------------
(* laserCallback, lines 733-742, and updateMap, lines 768-875 *)

\* line 131
MAP_IDX(sx, i, j) == sx * j + i

\* as Classify, with a cell equal to occ_thresh_ taken for occupied
ClassifyInclusive(occ) ==
  IF occ < 0 THEN -1
  ELSE IF occ >= OccThresh THEN 100
  ELSE 0

\* lines 856-864: the tri-state value of a cell of probability occ
Classify(occ) ==
  IF occ < 0 THEN -1
  ELSE IF occ > OccThresh THEN 100
  ELSE 0

\* line 855: the assertion holds
AssertOcc(occ) == occ <= ProbOne

\* as MapIsDue, with an elapsed time equal to the interval taken for due
MapIsDueInclusive(tp) ==
  ~got_map_ \/ (tp - last_map_update) >= MapUpdateInterval

\* as MapIsDue, without the test of got_map_
MapIsDueElapsedOnly(tp) == (tp - last_map_update) > MapUpdateInterval

\* line 737: the map is to be rebuilt
MapIsDue(tp) == ~got_map_ \/ (tp - last_map_update) > MapUpdateInterval

(* The trajectory tree of the filter (GridSlamProcessor::TNode): node n    *)
(* has parent[n], 0 for the root, and reading[n] tells whether it carries a *)
(* reading; leaf is the node of the best particle.  The filter makes a node *)
(* a child of a node that exists already, so a parent has a smaller number. *)

\* the trajectory trees of k nodes
TreesOf(k) ==
  { [parent |-> p, reading |-> rd, leaf |-> l] :
      p \in { q \in [1..k -> 0..(k - 1)] :
                 \A n \in 1..k : (n = 1 /\ q[n] = 0) \/ (n > 1 /\ q[n] \in 1..(n - 1)) },
      rd \in [1..k -> BOOLEAN], l \in 1..k }

\* the trajectory trees of up to MaxNodes nodes
Trees == UNION { TreesOf(k) : k \in 1..MaxNodes }

\* the tree after one processed scan: the root and a node with the reading
TreeOne == [parent |-> << 0, 1 >>, reading |-> << FALSE, TRUE >>, leaf |-> 2]

\* as HasReading, for a loop that never tests n->reading
HasReadingAlways(tree, n) == TRUE

\* line 816, negated: node n carries a reading
HasReading(tree, n) == tree.reading[n]

\* lines 808-824 from node n on (0 is the null pointer): the node is logged
\* (line 812); without a reading that is logged too (line 818) and the loop
\* goes on to the parent, otherwise the node is registered (lines 821-823)
RECURSIVE WalkFrom(_, _, _)
WalkFrom(tree, n, acc) ==
  IF n = 0 THEN acc
  ELSE WalkFrom(tree, tree.parent[n],
         IF HasReading(tree, n)
         THEN [acc EXCEPT !.visited = Append(@, n),
                          !.registered = Append(@, n),
                          !.log = @ \cup {812}]
         ELSE [acc EXCEPT !.visited = Append(@, n),
                          !.log = @ \cup {812, 818}])

\* lines 780-781 and 807-824: the loop from the best particle's node
Walk(tree) ==
  WalkFrom(tree, tree.leaf,
           [tree |-> tree, visited |-> << >>, registered |-> << >>, log |-> {807}])

(* GMapping::ScanMatcherMap after the trajectory has been registered       *)
(* (lines 804-824): built over bounds_ with one cell per unit and, when a   *)
(* reading was registered (grown), grown in x, to either side, to cover     *)
(* the readings along the best particle's trajectory (gsp_.reach); its      *)
(* cells are drawn from C.  wmin and wmax are map2world(0, 0) and           *)
(* map2world(sizeX, sizeY), lines 831-832.                                  *)
WorkingGrids(C, grown) ==
  LET lo == IF grown THEN Min(bounds_.xmin, gsp_.reach[1]) ELSE bounds_.xmin
      hi == IF grown THEN Max(bounds_.xmax, gsp_.reach[2]) ELSE bounds_.xmax
      sx == hi - lo
      sy == bounds_.ymax - bounds_.ymin
  IN { [sizeX |-> sx, sizeY |-> sy,
        wmin |-> << lo, bounds_.ymin >>,
        wmax |-> << hi, bounds_.ymax >>,
        cell |-> c] : c \in [ (0..(sx - 1)) \X (0..(sy - 1)) -> C ] }

(* computePoseEntropy, lines 747-766.  The weights of the particles are    *)
(* integers; a quotient of doubles is kept by its class (NaN for 0/0, an    *)
(* infinity for a non-zero weight over a zero total) and, when finite and   *)
(* positive, its term p * log(p) is computed in thousandths.                *)

\* log(n) in thousandths
Ln(n) ==
  CASE n = 1 -> 0    [] n = 2 -> 693   [] n = 3 -> 1099  [] n = 4 -> 1386
    [] n = 5 -> 1609 [] n = 6 -> 1792  [] n = 7 -> 1946  [] n = 8 -> 2079
    [] n = 9 -> 2197 [] n = 10 -> 2303 [] n = 11 -> 2398 [] n = 12 -> 2485

\* lines 750-756: weight_total
RECURSIVE WeightTotal(_)
WeightTotal(w) == IF w = << >> THEN 0 ELSE Head(w) + WeightTotal(Tail(w))

\* it->weight / weight_total, by its class
Normalized(wi, total) ==
  IF total = 0
  THEN (IF wi = 0 THEN "nan" ELSE IF wi > 0 THEN "+inf" ELSE "-inf")
  ELSE IF wi = 0 THEN "zero"
  ELSE IF (wi > 0) = (total > 0) THEN "pos" ELSE "neg"

\* line 762: the term of this particle is added
Included(wi, total) == Normalized(wi, total) \in {"pos", "+inf"}

\* line 763 for a finite positive quotient: p * log(p), in thousandths
Term(wi, total) ==
  (Abs(wi) * (Ln(Abs(wi)) - Ln(Abs(total)))) \div Abs(total)

\* the sum of Term over the particles numbered in I
RECURSIVE TermSum(_, _, _)
TermSum(w, total, I) ==
  IF I = {} THEN 0
  ELSE LET i == CHOOSE k \in I : TRUE
       IN Term(w[i], total) + TermSum(w, total, I \ {i})

\* lines 757-765: the value returned, and the particles whose term was added
computePoseEntropy(w) ==
  LET total == WeightTotal(w)
      inc == { i \in 1..Len(w) : Included(w[i], total) }
  IN IF \E i \in inc : Normalized(w[i], total) = "+inf"
     THEN [kind |-> "-inf", value |-> 0, terms |-> inc]
     ELSE [kind |-> "finite", value |-> -TermSum(w, total, inc), terms |-> inc]

\* as Resize, for a buffer that keeps its length
ResizeSkipped(data, n) == data

\* std::vector::resize: the first elements kept, new ones value-initialised
Resize(data, n) == [k \in 1..n |-> IF k <= Len(data) THEN data[k] ELSE 0]

\* lines 848-866, the cells in the order the loops visit them: cell number
\* n is (x, y) = (n div sizeY, n mod sizeY)
RECURSIVE Rasterize(_, _, _, _)
Rasterize(data, width, g, n) ==
  IF n >= g.sizeX * g.sizeY THEN data
  ELSE LET x == n \div g.sizeY
           y == n % g.sizeY
       IN Rasterize([data EXCEPT ![MAP_IDX(width, x, y) + 1] = Classify(g.cell[<<x, y>>])],
                    width, g, n + 1)

\* line 737
MapCheck ==
  /\ pc_scan = "map_check"
  /\ pc_scan' = IF MapIsDue(scan.stamp) THEN "map_lock" ELSE "ret"
  /\ UNCHANGED << Config, History, laser_count_, Geometry, gsp_, map_to_odom_,
                  map_to_odom_mutex_, MapVars, ScanLocals, log_scan, OtherThreads,
                  arrived >>

\* as UpdateMapLock, for an updateMap that does not take map_mutex_
UpdateMapLockSkipped ==
  /\ pc_scan = "map_lock"
  /\ log_scan' = log_scan \cup {771}
  /\ pc_scan' = "map_build"
  /\ UNCHANGED << Config, History, laser_count_, Geometry, gsp_, map_to_odom_,
                  map_to_odom_mutex_, MapVars, ScanLocals, OtherThreads,
                  arrived >>

\* line 772
UpdateMapLock ==
  /\ pc_scan = "map_lock"
  /\ CanLock(map_mutex_)
  /\ map_mutex_' = "scan"
  /\ log_scan' = log_scan \cup {771}
  /\ pc_scan' = "map_build"
  /\ UNCHANGED << Config, History, laser_count_, Geometry, gsp_, map_to_odom_,
                  map_to_odom_mutex_, got_map_, map_, bounds_,
                  last_map_update, smap, entropy, walk, ScanLocals, OtherThreads,
                  arrived >>

\* lines 773-824: the best particle is read with its trajectory tree t, the
\* entropy of the particle weights w is computed, the origin is reset before
\* the first map, the working grid g is built from the best particle's
\* trajectory
UpdateMapBuild(in) ==
  /\ pc_scan = "map_build"
  /\ map_' = IF ~got_map_ THEN [map_ EXCEPT !.origin = <<0, 0>>] ELSE map_
  /\ \E t \in in.trees :
       /\ walk' = Walk(t)
       /\ \E g \in WorkingGrids(in.cells, walk'.registered /= << >>) : smap' = g
  /\ \E w \in in.weights :
       entropy' = [weights |-> w, data |-> computePoseEntropy(w)]
  /\ log_scan' = log_scan \cup walk'.log
  /\ pc_scan' = "map_resize"
  /\ UNCHANGED << Config, History, laser_count_, Geometry, gsp_, map_to_odom_,
                  map_to_odom_mutex_, got_map_, bounds_, last_map_update,
                  map_mutex_, ScanLocals, OtherThreads, arrived >>

\* as UpdateMapResize, with xmax_ and ymax_ taken from the cell counts of
\* the working grid instead of its upper corner
UpdateMapResizeBySize ==
  /\ pc_scan = "map_resize"
  /\ IF map_.width /= smap.sizeX \/ map_.height /= smap.sizeY
     THEN /\ bounds_' = [xmin |-> smap.wmin[1], ymin |-> smap.wmin[2],
                         xmax |-> smap.sizeX, ymax |-> smap.sizeY]
          /\ map_' = [width |-> smap.sizeX, height |-> smap.sizeY,
                      origin |-> smap.wmin,
                      data |-> Resize(map_.data, smap.sizeX * smap.sizeY)]
          /\ log_scan' = log_scan \cup {836, 845}
     ELSE UNCHANGED << bounds_, map_, log_scan >>
  /\ pc_scan' = "map_raster"
  /\ UNCHANGED << Config, History, laser_count_, Geometry, gsp_, map_to_odom_,
                  map_to_odom_mutex_, got_map_, last_map_update, map_mutex_,
                  smap, entropy, walk, ScanLocals, OtherThreads, arrived >>

\* lines 827-846
UpdateMapResize ==
  /\ pc_scan = "map_resize"
  /\ IF map_.width /= smap.sizeX \/ map_.height /= smap.sizeY
     THEN /\ bounds_' = [xmin |-> smap.wmin[1], ymin |-> smap.wmin[2],
                         xmax |-> smap.wmax[1], ymax |-> smap.wmax[2]]
          /\ map_' = [width |-> smap.sizeX, height |-> smap.sizeY,
                      origin |-> smap.wmin,
                      data |-> Resize(map_.data, smap.sizeX * smap.sizeY)]
          /\ log_scan' = log_scan \cup {836, 845}
     ELSE UNCHANGED << bounds_, map_, log_scan >>
  /\ pc_scan' = "map_raster"
  /\ UNCHANGED << Config, History, laser_count_, Geometry, gsp_, map_to_odom_,
                  map_to_odom_mutex_, got_map_, last_map_update, map_mutex_,
                  smap, entropy, walk, ScanLocals, OtherThreads, arrived >>

\* lines 848-866: every cell is classified; a cell above 1.0 fails the
\* assertion of line 855 and the process aborts
UpdateMapRaster ==
  /\ pc_scan = "map_raster"
  /\ IF \A p \in DOMAIN smap.cell : AssertOcc(smap.cell[p])
     THEN /\ map_' = [map_ EXCEPT !.data = Rasterize(@, map_.width, smap, 0)]
          /\ pc_scan' = "map_finish"
     ELSE /\ map_' = map_
          /\ pc_scan' = "aborted"
  /\ UNCHANGED << Config, History, laser_count_, Geometry, gsp_, map_to_odom_,
                  map_to_odom_mutex_, got_map_, bounds_, last_map_update,
                  map_mutex_, smap, entropy, walk, ScanLocals, log_scan, OtherThreads, arrived >>

\* lines 867-875 and 740: the map exists and is published, map_mutex_ is
\* released on return, the time of the rebuild is kept
UpdateMapFinish ==
  /\ pc_scan = "map_finish"
  /\ got_map_' = TRUE
  /\ map_mutex_' = "free"
  /\ last_map_update' = scan.stamp
  /\ published' = map_
  /\ built_from' = gsp_.reach
  /\ log_scan' = log_scan \cup {741}
  /\ pc_scan' = "ret"
  /\ UNCHANGED << Config, committed, laser_count_, Geometry, gsp_, map_to_odom_,
                  map_to_odom_mutex_, map_, bounds_, smap, entropy, walk, ScanLocals,
                  OtherThreads, arrived >>

\* laserCallback returns: its locals are gone
Return ==
  /\ pc_scan = "ret"
  /\ pc_scan' = "idle"
  /\ scan' = NoScan
  /\ outcome' = "none"
  /\ reading' = NoReading
  /\ odom_pose' = NoPose
  /\ mpose' = NoPose
  /\ new_corr' = Identity
  /\ answers' = NoAnswers
  /\ smap' = NoSmap
  /\ entropy' = NoEntropy
  /\ walk' = NoWalk
  /\ log_scan' = {}
  /\ UNCHANGED << Config, History, laser_count_, Geometry, gsp_, map_to_odom_,
                  map_to_odom_mutex_, got_map_, map_, bounds_,
                  last_map_update, map_mutex_, OtherThreads, arrived >>

-----------------------------------------------------------------------------
(* publishLoop, lines 364-373, and publishTransform, lines 893-913 *)

ScanThreadVars == << laser_count_, Geometry, gsp_, MapVars, pc_scan,
                     ScanLocals, log_scan, arrived >>

\* lines 365-366: a period of zero ends the thread
PublishLoopStart ==
  /\ pc_tf = "start"
  /\ pc_tf' = IF transform_publish_period_ = 0 THEN "off" ELSE "tick"
  /\ UNCHANGED << Config, History, log_tf, ScanThreadVars, map_to_odom_, map_to_odom_mutex_,
                  msg, broadcast, pc_srv, response >>

\* lines 369-370 and 895
PublishLock ==
  /\ pc_tf = "tick"
  /\ CanLock(map_to_odom_mutex_)
  /\ map_to_odom_mutex_' = "tf"
  /\ pc_tf' = "read_origin"
  /\ UNCHANGED << Config, History, log_tf, ScanThreadVars, map_to_odom_, msg, broadcast,
                  pc_srv, response >>

\* lines 902-904
PublishReadOrigin ==
  /\ pc_tf = "read_origin"
  /\ msg' = [msg EXCEPT !.translation = map_to_odom_.origin]
  /\ pc_tf' = "read_rotation"
  /\ UNCHANGED << Config, History, log_tf, ScanThreadVars, map_to_odom_, map_to_odom_mutex_,
                  broadcast, pc_srv, response >>

\* lines 905-908
PublishReadRotation ==
  /\ pc_tf = "read_rotation"
  /\ msg' = [msg EXCEPT !.rotation = << map_to_odom_.flip, map_to_odom_.yaw >>]
  /\ pc_tf' = "send"
  /\ UNCHANGED << Config, History, log_tf, ScanThreadVars, map_to_odom_, map_to_odom_mutex_,
                  broadcast, pc_srv, response >>

\* line 910
PublishSend ==
  /\ pc_tf = "send"
  /\ broadcast' = msg
  /\ pc_tf' = "unlock"
  /\ UNCHANGED << Config, History, log_tf, ScanThreadVars, map_to_odom_, map_to_odom_mutex_,
                  msg, pc_srv, response >>

\* line 912, then r.sleep() and the next turn of the loop
PublishUnlock ==
  /\ pc_tf = "unlock"
  /\ map_to_odom_mutex_' = "free"
  /\ msg' = NoMsg
  /\ pc_tf' = "tick"
  /\ UNCHANGED << Config, History, log_tf, ScanThreadVars, map_to_odom_, broadcast, pc_srv,
                  response >>

-----------------------------------------------------------------------------
(* mapCallback, lines 877-891 *)

\* line 883
MapCallbackLock ==
  /\ pc_srv = "idle"
  /\ CanLock(map_mutex_)
  /\ map_mutex_' = "srv"
  /\ pc_srv' = "locked"
  /\ UNCHANGED << Config, History, log_tf, laser_count_, Geometry, gsp_, got_map_, map_,
                  bounds_, last_map_update, smap, entropy, walk, pc_scan, ScanLocals, log_scan, arrived,
                  map_to_odom_, map_to_odom_mutex_, pc_tf, msg, broadcast,
                  response >>

\* as MapCallbackAnswer, without the test of line 884
MapCallbackAnswerAlways ==
  /\ pc_srv = "locked"
  /\ response' = [ok |-> TRUE, map |-> map_]
  /\ map_mutex_' = "free"
  /\ pc_srv' = "answered"
  /\ UNCHANGED << Config, History, log_tf, laser_count_, Geometry, gsp_,
                  got_map_, map_, bounds_, last_map_update, smap, entropy, walk,
                  pc_scan, ScanLocals, log_scan, arrived, map_to_odom_,
                  map_to_odom_mutex_, pc_tf, msg, broadcast >>

\* lines 884-890; the lock is released on return
MapCallbackAnswer ==
  /\ pc_srv = "locked"
  /\ response' = IF got_map_ /\ map_.width /= 0 /\ map_.height /= 0
                 THEN [ok |-> TRUE, map |-> map_]
                 ELSE [ok |-> FALSE]
  /\ map_mutex_' = "free"
  /\ pc_srv' = "answered"
  /\ UNCHANGED << Config, History, log_tf, laser_count_, Geometry, gsp_, got_map_, map_,
                  bounds_, last_map_update, smap, entropy, walk, pc_scan, ScanLocals, log_scan, arrived,
                  map_to_odom_, map_to_odom_mutex_, pc_tf, msg, broadcast >>

\* the answer has been delivered
MapCallbackDone ==
  /\ pc_srv = "answered"
  /\ response' = NoResponse
  /\ pc_srv' = "idle"
  /\ UNCHANGED << Config, History, log_tf, ScanThreadVars, map_to_odom_, map_to_odom_mutex_,
                  pc_tf, msg, broadcast >>

-----------------------------------------------------------------------------
(* The specifications *)

\* the scan callback, over the inputs in: [scans, mounts, lookups, poses,
\* cells, reaches, weights, trees]
ScanThread(in) ==
  \/ LaserCallbackNoTransform(in)
  \/ LaserCallbackThrottled(in)
  \/ LaserCallbackInitFailed(in)
  \/ LaserCallbackAddScan(in)
  \/ CorrLock
  \/ CorrWriteBasis
  \/ CorrWriteOrigin
  \/ CorrUnlock
  \/ MapCheck
  \/ UpdateMapLock
  \/ UpdateMapBuild(in)
  \/ UpdateMapResize
  \/ UpdateMapRaster
  \/ UpdateMapFinish
  \/ Return

TfThread ==
  \/ PublishLoopStart
  \/ PublishLock
  \/ PublishReadOrigin
  \/ PublishReadRotation
  \/ PublishSend
  \/ PublishUnlock

MapService ==
  \/ MapCallbackLock
  \/ MapCallbackAnswer
  \/ MapCallbackDone

\* inputs of the interleaved runs: one stamp, long readings only
InputsNarrow ==
  [scans |-> ScansOver({1}, {5000}),
   mounts |-> { m \in Mounts : m.tz = 0 /\ m.rzz > 0 },
   lookups |-> { NoTransform, Xf(FALSE, 1, 1, 0) },
   poses |-> BestPoses,
   cells |-> {1000},
   reaches |-> { <<0, h>> : h \in 1..MaxGrid },
   weights |-> { <<1, 1>> },
   trees |-> { TreeOne }]

\* inputs for the gate: every mount and lookup answer, two stamps, scans of
\* both sweeps and beam counts
InputsGate ==
  [scans |-> ScansOver({1, 7}, {5000}),
   mounts |-> Mounts,
   lookups |-> OdomLookups,
   poses |-> BestPoses,
   cells |-> {1000},
   reaches |-> { <<0, 1>> },
   weights |-> { <<1, 1>> },
   trees |-> { TreeOne }]

\* inputs for the range array: readings below range_min, equal to it and
\* above it, under upward and upside-down mounts
InputsRanges ==
  [scans |-> ScansOver({1}, {50, 100, 5000}),
   mounts |-> { m \in Mounts : m.tz = 0 },
   lookups |-> { NoTransform, Xf(FALSE, 0, 0, 0) },
   poses |-> { Pose(0, 0, 0) },
   cells |-> {1000},
   reaches |-> { <<0, 1>> },
   weights |-> { <<1, 1>> },
   trees |-> { TreeOne }]

\* inputs for the rasterization: cell probabilities below 0, 0, at the
\* threshold, just above it, and 1.0
InputsCells ==
  [scans |-> ScansOver({1, 7}, {5000}),
   mounts |-> { m \in Mounts : m.tz = 0 /\ m.rzz > 0 },
   lookups |-> { NoTransform, Xf(FALSE, 0, 0, 0) },
   poses |-> { Pose(0, 0, 0) },
   cells |-> {-1, 0, 250, 251, 1000},
   reaches |-> { <<0, h>> : h \in 1..MaxGrid },
   weights |-> { <<1, 1>> },
   trees |-> { TreeOne }]

\* inputs for the map service: two stamps far enough apart for a second
\* rebuild, a trajectory that makes the grid grow, free and occupied cells
InputsMap ==
  [scans |-> { s \in ScansOver({1, 7}, {5000}) :
                 s.angle_min < s.angle_max /\ Len(s.ranges) = MaxBeams },
   mounts |-> { m \in Mounts : m.tz = 0 /\ m.rzz > 0 },
   lookups |-> { NoTransform, Xf(FALSE, 0, 0, 0) },
   poses |-> { Pose(0, 0, 0) },
   cells |-> {0, 1000},
   reaches |-> { <<0, h>> : h \in 1..MaxGrid },
   weights |-> { <<1, 1>> },
   trees |-> { TreeOne }]

\* inputs for the rebuild schedule: stamps 1, 6 and 7, so that the time
\* since a rebuild at 1 is equal to the interval (6) or above it (7)
InputsSchedule ==
  [scans |-> { s \in ScansOver(Stamps, {5000}) :
                 s.angle_min < s.angle_max /\ Len(s.ranges) = MaxBeams },
   mounts |-> { m \in Mounts : m.tz = 0 /\ m.rzz > 0 },
   lookups |-> { NoTransform, Xf(FALSE, 0, 0, 0) },
   poses |-> { Pose(0, 0, 0) },
   cells |-> {1000},
   reaches |-> { <<0, 1>> },
   weights |-> { <<1, 1>> },
   trees |-> { TreeOne }]

\* inputs for the geometry resolution: mounts at and around the planar
\* tolerance, upward and upside down, scans of both sweeps
InputsMount ==
  [scans |-> { s \in ScansOver({1}, {5000}) : Len(s.ranges) = MaxBeams },
   mounts |-> MountsEdge,
   lookups |-> { NoTransform, Xf(FALSE, 0, 0, 0) },
   poses |-> { Pose(0, 0, 0) },
   cells |-> {1000},
   reaches |-> { <<0, 1>> },
   weights |-> { <<1, 1>> },
   trees |-> { TreeOne }]

\* inputs for the rebuilds: two stamps far enough apart for a second
\* rebuild, trajectories that make the grid grow to either side, every cell
\* occupied (the cell values are checked under SpecRaster)
InputsGrid ==
  [scans |-> { s \in ScansOver({1, 7}, {5000}) :
                 s.angle_min < s.angle_max /\ Len(s.ranges) = MaxBeams },
   mounts |-> { m \in Mounts : m.tz = 0 /\ m.rzz > 0 },
   lookups |-> { NoTransform, Xf(FALSE, 0, 0, 0) },
   poses |-> { Pose(0, 0, 0) },
   cells |-> {1000},
   reaches |-> Reaches,
   weights |-> { <<1, 1>> },
   trees |-> { TreeOne }]

\* inputs for the entropy: particle weights of either sign and zero
InputsEntropy ==
  [scans |-> { s \in ScansOver({1, 7}, {5000}) :
                 s.angle_min < s.angle_max /\ Len(s.ranges) = MaxBeams },
   mounts |-> { m \in Mounts : m.tz = 0 /\ m.rzz > 0 },
   lookups |-> { NoTransform, Xf(FALSE, 0, 0, 0) },
   poses |-> { Pose(0, 0, 0) },
   cells |-> {1000},
   reaches |-> { <<0, 1>> },
   weights |-> WeightVectors,
   trees |-> { TreeOne }]

\* inputs for the correction: odometry answers and best poses that differ
\* in position and in heading, and some that agree
InputsCorrection ==
  [scans |-> { s \in ScansOver({1}, {5000}) :
                 s.angle_min < s.angle_max /\ Len(s.ranges) = MaxBeams },
   mounts |-> { m \in Mounts : m.tz = 0 /\ m.rzz > 0 },
   lookups |-> { NoTransform, Xf(FALSE, 0, 0, 0), Xf(FALSE, 1, 1, 0),
                 Xf(FALSE, 3, 0, 2) },
   poses |-> { Pose(0, 0, 0), Pose(1, 0, 1), Pose(0, 2, 3), Pose(2, 1, 2) },
   cells |-> {1000},
   reaches |-> { <<0, 1>> },
   weights |-> { <<1, 1>> },
   trees |-> { TreeOne }]

\* inputs for the trajectory: every tree of up to MaxNodes nodes, with
\* and without readings, and every node of it as the best particle's
InputsWalk ==
  [scans |-> { s \in ScansOver({1, 7}, {5000}) :
                 s.angle_min < s.angle_max /\ Len(s.ranges) = MaxBeams },
   mounts |-> { m \in Mounts : m.tz = 0 /\ m.rzz > 0 },
   lookups |-> { NoTransform, Xf(FALSE, 0, 0, 0) },
   poses |-> { Pose(0, 0, 0) },
   cells |-> {1000},
   reaches |-> { <<0, MaxGrid>> },
   weights |-> { <<1, 1>> },
   trees |-> Trees]

\* inputs for the runs that have to end with a map: lookups that fail and
\* that answer, a planar and a tilted mount, scans of both beam counts
InputsLive ==
  [scans |-> { s \in ScansOver({1}, {5000}) : s.angle_min < s.angle_max },
   mounts |-> { m \in Mounts : m.tz = 0 /\ m.rzz > 0 },
   lookups |-> { NoTransform, Xf(FALSE, 0, 0, 0) },
   poses |-> { Pose(0, 0, 0) },
   cells |-> {1000},
   reaches |-> { <<0, 1>> },
   weights |-> { <<1, 1>> },
   trees |-> { TreeOne }]

\* the callback that ended with outcome o was answered a by tf2 as the
\* settled environment answers: canTransform true (lines 694-699), both
\* base-frame lookups answered with a planar mount, every odometry lookup
\* answered
AnsweredWell(o, a) ==
  /\ o /= "no_transform"
  /\ a.init_called =>
       (initMapperOK(a.e) /\ getOdomPoseOK(a.e.odom_init))
  /\ a.add_called => getOdomPoseOK(a.lookup)

\* the environment settles, between two scans
Settle ==
  /\ ~settled
  /\ pc_scan = "idle"
  /\ settled' = TRUE
  /\ UNCHANGED << throttle_scans_, transform_publish_period_, History,
                  ScanThreadVars, map_to_odom_, map_to_odom_mutex_,
                  OtherThreads >>

\* a step of the scan callback, answered well once the environment has
\* settled
LiveScan ==
  /\ ScanThread(InputsLive)
  /\ settled => AnsweredWell(outcome', answers')

\* the three activities in an environment that may settle
LiveNext ==
  \/ LiveScan
  \/ TfThread
  \/ MapService
  \/ Settle

\* the node: the three activities interleaved
Next ==
  \/ ScanThread(InputsNarrow)
  \/ TfThread
  \/ MapService

Spec == Init /\ [][Next]_vars

\* the scan callback alone, one scan after the other
InitScan == Init /\ transform_publish_period_ = 0

SpecGate == InitScan /\ [][ScanThread(InputsGate)]_vars

SpecRanges == InitScan /\ [][ScanThread(InputsRanges)]_vars

SpecRaster == InitScan /\ [][ScanThread(InputsCells)]_vars

SpecSchedule == InitScan /\ [][ScanThread(InputsSchedule)]_vars

SpecMount == InitScan /\ [][ScanThread(InputsMount)]_vars

\* the scan callback over initial bounds of two rows
InitGrid == InitAt(2) /\ transform_publish_period_ = 0

SpecGrid == InitGrid /\ [][ScanThread(InputsGrid)]_vars

SpecEntropy == InitScan /\ [][ScanThread(InputsEntropy)]_vars

SpecCorrection == InitScan /\ [][ScanThread(InputsCorrection)]_vars

SpecWalk == InitScan /\ [][ScanThread(InputsWalk)]_vars

(* Scans keep arriving and the callback runs on (weak fairness of the     *)
(* scan callback's steps); the broadcast thread runs on and a map request  *)
(* that holds map_mutex_ is answered, so that both release the lock they   *)
(* hold (weak fairness of publishTransform's steps and of mapCallback's    *)
(* answer); and a callback that waits for a lock gets it once the lock has *)
(* been released often enough (strong fairness of the locks of lines 729   *)
(* and 772).                                                               *)
SpecLive ==
  /\ Init
  /\ [][LiveNext]_vars
  /\ WF_vars(LiveScan)
  /\ WF_vars(TfThread)
  /\ WF_vars(MapCallbackAnswer)
  /\ SF_vars(CorrLock)
  /\ SF_vars(UpdateMapLock)

\* the scan callback and the map service interleaved
SpecMap == InitScan /\ [][ScanThread(InputsMap) \/ MapService]_vars

-----------------------------------------------------------------------------
(* Claims *)

\* the paths of laserCallback that run past the throttle test (line 703)
PastThrottle == { "init_failed", "odom_failed", "beam_mismatch",
                  "filter_rejected", "processed" }

\* C1: every incoming scan is counted, also one whose odom transform is
\* unavailable, and the scans that pass the throttle are exactly those whose
\* arrival index n satisfies n mod throttle_scans_ = 0.
C1_ThrottleCountsEveryScan ==
  /\ laser_count_ = arrived
  /\ outcome = "throttled" => (arrived % throttle_scans_) /= 0
  /\ outcome \in PastThrottle => (arrived % throttle_scans_) = 0

\* the index of scan.ranges that entry i of the range array is taken from
SourceIndex(i) ==
  IF do_reverse_range_ THEN Len(scan.ranges) - i + 1 ELSE i

\* C2: each entry of the range array handed to the filter is range_max when
\* the input range it is taken from is strictly below range_min, and that
\* input range unchanged otherwise (a range equal to range_min passes).
C2_ShortReadingsBecomeRangeMax ==
  answers.asked =>
    /\ Len(reading) = Len(scan.ranges)
    /\ \A i \in 1..Len(reading) :
         LET r == scan.ranges[SourceIndex(i)]
         IN /\ r < scan.range_min => reading[i] = scan.range_max
            /\ r >= scan.range_min => reading[i] = r

\* C2 witness: the scan [0.05, 5.0, 0.1] with range_min 0.1 and range_max 10
\* reached the filter as [10, 5.0, 0.1]
C2_Witness ==
  /\ answers.asked
  /\ ~do_reverse_range_
  /\ scan.ranges = <<50, 5000, 100>>
  /\ reading = <<10000, 5000, 100>>

\* the sequence r backwards
Reverse(r) == [i \in 1..Len(r) |-> r[Len(r) - i + 1]]

\* C3: the range array built from a scan with do_reverse_range_ = d is the
\* array the code builds with the opposite flag from the reversed ranges.
C3_ReversalMatchesForwardScan ==
  answers.asked =>
    reading = RangesDouble([scan EXCEPT !.ranges = Reverse(scan.ranges)],
                           ~do_reverse_range_)

\* C3 witness: a reversed scan with a short reading at one end
C3_Witness ==
  /\ answers.asked
  /\ do_reverse_range_
  /\ scan.ranges = <<50, 5000, 100>>
  /\ reading = <<100, 5000, 10000>>

\* C4: after the rasterization every cell of the working grid is classified
\* by a hard threshold: below 0 unknown (-1), strictly above occ_thresh_
\* occupied (100), anything else free (0), so a cell equal to occ_thresh_ is
\* free; and the assertion of line 855 fails only for a cell above 1.0.
C4_HardThreshold ==
  /\ pc_scan = "aborted" => \E p \in DOMAIN smap.cell : smap.cell[p] > ProbOne
  /\ pc_scan = "map_finish" =>
       \A x \in 0..(smap.sizeX - 1), y \in 0..(smap.sizeY - 1) :
         LET occ == smap.cell[<<x, y>>]
             v == map_.data[map_.width * y + x + 1]
         IN /\ occ < 0 => v = -1
            /\ (occ >= 0 /\ occ <= OccThresh) => v = 0
            /\ occ > OccThresh => v = 100

\* C4 witness: a rebuild over a cell equal to occ_thresh_ and a cell of 1.0
C4_Witness ==
  /\ pc_scan = "map_finish"
  /\ \E p \in DOMAIN smap.cell : smap.cell[p] = OccThresh
  /\ \E p \in DOMAIN smap.cell : smap.cell[p] = ProbOne

\* the geometry initMapper caches
CachedGeometry == << gsp_laser_beam_count_, do_reverse_range_, laser_angles_,
                     centered_laser_pose_ >>

\* C5: once got_first_scan_ is true it stays true, initMapper is not called
\* again, and the cached beam count, do_reverse_range_, beam-angle table and
\* centered sensor pose are never changed.
C5_GeometryResolvedOnce ==
  [][ got_first_scan_ =>
        /\ got_first_scan_'
        /\ arrived' /= arrived => ~answers'.init_called
        /\ UNCHANGED CachedGeometry ]_vars

\* C5 witness: while ACTIVE, a later scan of another beam count was handled
C5_Witness ==
  /\ got_first_scan_
  /\ laser_count_ >= 2
  /\ answers.add_called
  /\ ~answers.init_called
  /\ Len(scan.ranges) /= gsp_laser_beam_count_

\* initMapper's lookups both answered and the mount is within the tolerance
InitSucceeds(e) ==
  /\ e.base_ok1
  /\ e.base_ok2
  /\ Abs(Abs(UpZ(e.mount)) - UpOne) <= PlanarTolerance

\* correction and map state
CorrectionAndMap == << map_to_odom_, map_, bounds_, got_map_, last_map_update >>

\* C6: the gate becomes ACTIVE only in a callback whose initMapper
\* succeeds; when initMapper fails the gate stays AWAITING_GEOMETRY, the
\* scan does not reach addScan, filter configuration, correction and map are
\* unchanged; and every scan past the throttle while AWAITING_GEOMETRY calls
\* initMapper again.
C6_GateOpensOnlyOnSuccess ==
  [][ /\ (~got_first_scan_ /\ got_first_scan_') =>
           (answers'.init_called /\ InitSucceeds(answers'.e))
      /\ (answers'.init_called /\ ~InitSucceeds(answers'.e)) =>
           /\ ~got_first_scan_'
           /\ ~answers'.add_called
           /\ reading' = NoReading
           /\ pc_scan' = "ret"
           /\ UNCHANGED << CachedGeometry, maxRange_, gsp_, CorrectionAndMap >>
      /\ (~got_first_scan_ /\ outcome = "none" /\ outcome' \in PastThrottle) =>
           answers'.init_called ]_vars

\* C6 witness: a second attempt at geometry resolution failed on a mount
\* that is not planar
C6_Witness ==
  /\ outcome = "init_failed"
  /\ throttle_scans_ = 1
  /\ laser_count_ >= 2
  /\ answers.e.base_ok1
  /\ answers.e.base_ok2

\* the scan in hand reached addScan with another beam count than recorded
BeamCountDiffers ==
  answers.add_called /\ Len(scan.ranges) /= gsp_laser_beam_count_

\* C7: a scan whose beam count differs from the recorded one is rejected:
\* addScan fails, the filter is not asked, every reading the filter gets has
\* the recorded length, and correction and map are left alone.
C7_BeamCountMismatchRejected ==
  /\ [](/\ BeamCountDiffers =>
              /\ outcome \in {"odom_failed", "beam_mismatch"}
              /\ ~answers.asked
              /\ reading = NoReading
              /\ pc_scan = "ret"
        /\ answers.asked => Len(reading) = gsp_laser_beam_count_)
  /\ [][ (BeamCountDiffers \/ BeamCountDiffers') =>
            UNCHANGED CorrectionAndMap ]_vars

\* C7 witness: a scan was rejected for its beam count
C7_Witness == outcome = "beam_mismatch" /\ answers.lookup /= NoTransform

\* addScan failed on the odometry lookup or on the filter
AddScanFailed(a) ==
  a.add_called /\ (a.lookup = NoTransform \/ (a.asked /\ ~a.accepted))

\* C8: when addScan fails on the odometry lookup or because processScan
\* returns false, the callback returns without another attempt and the
\* correction, the grid and its metadata, got_map_ and last_map_update are
\* unchanged; the callback then waits for the next scan.
C8_FailedScanChangesNothing ==
  /\ [](AddScanFailed(answers) =>
          /\ pc_scan = "ret"
          /\ outcome \in {"odom_failed", "filter_rejected"})
  /\ [][ (AddScanFailed(answers) \/ AddScanFailed(answers')) =>
            UNCHANGED CorrectionAndMap ]_vars
  /\ [][ AddScanFailed(answers) => pc_scan' \in {"ret", "idle"} ]_vars

\* C8 witness: the filter rejected a scan after a correction had been
\* written and a map published
C8_Witness ==
  /\ outcome = "filter_rejected"
  /\ got_map_
  /\ map_to_odom_ /= Identity

\* a transform as publishTransform writes it into the message
AsMsg(t) == [translation |-> t.origin, rotation |-> << t.flip, t.yaw >>]

\* the positions at which the scan callback writes map_to_odom_
WritingCorrection == {"corr_write_basis", "corr_write_origin", "corr_unlock"}
\* the positions at which publishTransform reads map_to_odom_ and sends
ReadingCorrection == {"read_origin", "read_rotation", "send", "unlock"}

\* C9: every write and every read of map_to_odom_ is made holding
\* map_to_odom_mutex_; a broadcast carries the last value written in full
\* (the identity before any write); map_to_odom_ is written only by a
\* callback whose scan was processed, once, with the value it computed.
C9_BroadcastCarriesCompleteValue ==
  /\ [](/\ pc_scan \in WritingCorrection => map_to_odom_mutex_ = "scan"
        /\ pc_tf \in ReadingCorrection => map_to_odom_mutex_ = "tf"
        /\ pc_tf = "unlock" => broadcast = AsMsg(committed)
        /\ pc_scan = "map_check" =>
             (map_to_odom_ = new_corr /\ committed = new_corr))
  /\ [][ /\ map_to_odom_' /= map_to_odom_ =>
              (pc_scan \in WritingCorrection /\ outcome = "processed")
         /\ committed' /= committed =>
              (pc_scan = "corr_write_origin" /\ committed' = new_corr) ]_vars

\* C9 witness: a written correction has been broadcast while the next
\* processed scan waits for the lock with another value
C9_Witness ==
  /\ pc_tf = "unlock"
  /\ committed /= Identity
  /\ broadcast = AsMsg(committed)
  /\ pc_scan = "corr_lock"
  /\ new_corr /= committed

\* C10: map_to_odom_mutex_ is never held by an activity that is in a
\* transform lookup or in the broadcast send.
C10_LockNotHeldAcrossCalls ==
  /\ pc_tf = "send" => map_to_odom_mutex_ /= "tf"
  /\ pc_scan = "idle" => map_to_odom_mutex_ /= "scan"

\* the positions of updateMap between taking map_mutex_ and returning
Rebuilding == {"map_build", "map_resize", "map_raster", "map_finish"}

\* C11: updateMap holds map_mutex_ from before its first write to the grid
\* until the rebuild is finished, mapCallback reads the grid only while it
\* holds the lock, and so a request is answered with the grid exactly as the
\* last completed rebuild left it, never with a partly rebuilt one.
C11_MapRequestSeesCompleteGrid ==
  /\ [](/\ pc_scan \in Rebuilding => map_mutex_ = "scan"
        /\ pc_srv = "locked" => (map_mutex_ = "srv" /\ map_ = published)
        /\ (pc_srv = "answered" /\ response.ok) =>
             Len(response.map.data) = response.map.width * response.map.height)
  /\ [][ /\ (map_' /= map_ \/ got_map_' /= got_map_) => map_mutex_ = "scan"
         /\ (pc_srv = "locked" /\ response'.ok) => response'.map = published
     ]_vars

\* C11 witness: a request was answered with the first grid, and the next
\* rebuild has since resized the grid it is working on
C11_Witness ==
  /\ pc_srv = "answered"
  /\ response.ok
  /\ pc_scan = "map_raster"
  /\ map_.width /= response.map.width
  /\ response.map = published

\* C12: the grid is rebuilt while a scan is handled if and only if the
\* filter processed the scan and either no map exists yet or the scan's
\* stamp is more than map_update_interval_ after the last rebuild (an
\* elapsed time equal to the interval does not do).
C12_RebuildWhenDue ==
  /\ [](pc_scan \in ({"map_check", "map_lock"} \cup Rebuilding) =>
          outcome = "processed")
  /\ [][ /\ (outcome /= "processed" /\ outcome' = "processed") =>
              pc_scan' = "corr_lock"
         /\ pc_scan = "corr_lock" => pc_scan' = "corr_write_basis"
         /\ pc_scan = "corr_write_basis" => pc_scan' = "corr_write_origin"
         /\ pc_scan = "corr_write_origin" => pc_scan' = "corr_unlock"
         /\ pc_scan = "corr_unlock" => pc_scan' = "map_check"
         /\ pc_scan' = "map_lock" => pc_scan = "map_check"
         /\ pc_scan = "map_check" =>
              IF ~got_map_ \/ scan.stamp - last_map_update > MapUpdateInterval
              THEN pc_scan' = "map_lock"
              ELSE pc_scan' = "ret" /\ UNCHANGED << map_, got_map_, last_map_update >>
         /\ pc_scan = "map_lock" => pc_scan' = "map_build" ]_vars

\* C12 witness: a processed scan stamped exactly one interval after the
\* last rebuild has returned without a rebuild
C12_Witness ==
  /\ outcome = "processed"
  /\ got_map_
  /\ scan.stamp - last_map_update = MapUpdateInterval
  /\ pc_scan = "ret"
  /\ 771 \notin log_scan

\* a request has been answered with a grid
Answered == pc_srv = "answered" /\ response.ok

\* everything but the service's own position, its answer and map_mutex_
NotTheService ==
  << Config, History, laser_count_, Geometry, gsp_, map_to_odom_,
     map_to_odom_mutex_, got_map_, map_, bounds_, last_map_update, smap,
     entropy, walk, pc_scan, ScanLocals, log_scan, arrived, pc_tf, msg, broadcast,
     log_tf >>

\* C13: a map request is answered with the published grid if and only if
\* got_map_ is set and width and height are both non-zero, and is declined
\* otherwise; a request changes nothing else; and once a request has been
\* answered every later request is answered.
C13_MapRequestAnsweredIffMapExists ==
  /\ [][ /\ (pc_srv = "locked" /\ pc_srv' = "answered") =>
              /\ response'.ok <=>
                   (got_map_ /\ map_.width /= 0 /\ map_.height /= 0)
              /\ response'.ok => response'.map = map_
         /\ pc_srv' /= pc_srv => UNCHANGED NotTheService ]_vars
  /\ [](Answered => [](pc_srv = "answered" => response.ok))

\* C13 witness: after the grid has grown a request was answered with it
C13_Witness ==
  /\ Answered
  /\ response.map.width = MaxGrid
  /\ arrived = MaxScans

\* C14: with a transform publish period of zero publishLoop returns
\* without calling publishTransform, so nothing is ever broadcast, and the
\* return is announced by a log line.
C14_ZeroPeriodDisablesBroadcast ==
  transform_publish_period_ = 0 =>
    /\ pc_tf \in {"start", "off"}
    /\ broadcast = NoMsg
    /\ map_to_odom_mutex_ /= "tf"
    /\ pc_tf = "off" => log_tf /= {}

\* initMapper was called in this callback and both its lookups answered
MountSeen == answers.init_called /\ answers.e.base_ok1 /\ answers.e.base_ok2

\* up.z as initMapper computed it in this callback
SeenUpZ == UpZ(answers.e.mount)

\* C15: geometry resolution fails on the planar check exactly when
\* | |up.z| - 1 | > 0.001: up.z = 0.95 is rejected, up.z = -1.0005 is
\* accepted as an upside-down mount, and a deviation of exactly 0.001 is
\* accepted.
C15_PlanarToleranceBoundary ==
  MountSeen =>
    /\ outcome = "init_failed" <=> Abs(Abs(SeenUpZ) - UpOne) > PlanarTolerance
    /\ outcome = "init_failed" <=> ~got_first_scan_
    /\ SeenUpZ = 9500 => (~got_first_scan_ /\ 517 \in log_scan)
    /\ SeenUpZ = -10005 => (got_first_scan_ /\ centered_laser_pose_.flip)
    /\ SeenUpZ \in {9990, 10010, -9990, -10010} => got_first_scan_

\* C15 witness: a mount with up.z = 0.999 was accepted, on the second scan
\* counted or a later one
C15_Witness ==
  /\ MountSeen
  /\ SeenUpZ = 9990
  /\ got_first_scan_
  /\ laser_count_ >= 2

\* the angle of beam i of the scan in hand as seen from above: its angle in
\* the sensor frame, negated for an upside-down mount
TopDownAngle(i) ==
  (IF SeenUpZ > 0 THEN 1 ELSE -1)
    * (scan.angle_min + (i - 1) * scan.angle_increment)

\* the beams of the scan in hand are in decreasing order seen from above
DecreasingOrder ==
  \A i \in 1..(Len(scan.ranges) - 1) : TopDownAngle(i + 1) < TopDownAngle(i)

SameTrajectoryAgain ==
  pc_scan \in Rebuilding /\ got_map_ /\ gsp_.reach = built_from

\* C16: a second rebuild over the same best-particle trajectory leaves the
\* width, height and origin of the published grid as the first rebuild set
\* them, and does not change xmin_, ymin_, xmax_, ymax_.
C16_RebuildIsIdempotent ==
  /\ [](SameTrajectoryAgain =>
          /\ map_.width = published.width
          /\ map_.height = published.height
          /\ map_.origin = published.origin
          /\ Len(map_.data) = Len(published.data))
  /\ [][ SameTrajectoryAgain => UNCHANGED bounds_ ]_vars

\* C16 witness: the second rebuild over a trajectory that had made the grid
\* grow to the left is about to publish
C16_Witness ==
  /\ SameTrajectoryAgain
  /\ pc_scan = "map_finish"
  /\ bounds_.xmin < 0
  /\ map_.width >= MaxGrid
  /\ last_map_update /= scan.stamp

\* the extent of the working grid differs from that of the published grid
ExtentDiffers == map_.width /= smap.sizeX \/ map_.height /= smap.sizeY

\* C19: from the resize on, the published grid's width and height are the
\* working grid's cell counts, the buffer holds width * height cells and
\* every index width * y + x the rasterization writes lies inside it; the
\* buffer is resized and the origin moved to the working grid's lower corner
\* exactly when the extents differ.
C19_GridTracksWorkingGrid ==
  /\ [](/\ pc_scan \in {"map_raster", "map_finish"} =>
             /\ map_.width = smap.sizeX
             /\ map_.height = smap.sizeY
             /\ Len(map_.data) = map_.width * map_.height
             /\ \A x \in 0..(smap.sizeX - 1), y \in 0..(smap.sizeY - 1) :
                  map_.width * y + x \in 0..(Len(map_.data) - 1)
        /\ Len(published.data) = published.width * published.height)
  /\ [][ pc_scan = "map_resize" =>
           IF ExtentDiffers
           THEN /\ Len(map_'.data) = smap.sizeX * smap.sizeY
                /\ map_'.origin = smap.wmin
                /\ bounds_' = [xmin |-> smap.wmin[1], ymin |-> smap.wmin[2],
                               xmax |-> smap.wmax[1], ymax |-> smap.wmax[2]]
           ELSE UNCHANGED << map_, bounds_ >> ]_vars

\* C19 witness: a second rebuild has made a published grid of two rows
\* grow to the left
C19_Witness ==
  /\ pc_scan = "map_finish"
  /\ got_map_
  /\ map_.height = 2
  /\ map_.width > published.width
  /\ map_.origin[1] < published.origin[1]

\* the paths of laserCallback on which the scan is dropped
Dropped == { "no_transform", "throttled", "init_failed", "odom_failed",
             "beam_mismatch", "filter_rejected" }

\* C17: every scan that laserCallback drops (no odom transform, throttled,
\* geometry resolution failed, odometry lookup failed, beam-count mismatch,
\* rejected by the filter) has produced at least one log line when the
\* callback returns.
C17_EveryDropIsLogged ==
  (pc_scan = "ret" /\ outcome \in Dropped) => log_scan /= {}

\* the normalized weight wi / total is zero or negative
RatioNotPositive(wi, total) ==
  \/ total /= 0 /\ (wi = 0 \/ (wi > 0) /= (total > 0))
  \/ total = 0 /\ wi < 0

\* C18: computePoseEntropy leaves out every term whose normalized weight is
\* <= 0, and returns 0 whenever no particle weight is positive (all zero,
\* all negative, or zero and negative mixed).
C18_EntropyOfNonPositiveWeights ==
  entropy.data.kind /= "unset" =>
    LET w == entropy.weights
    IN /\ \A i \in 1..Len(w) :
            RatioNotPositive(w[i], WeightTotal(w)) => i \notin entropy.data.terms
       /\ (\A i \in 1..Len(w) : w[i] <= 0) =>
            (entropy.data.kind = "finite" /\ entropy.data.value = 0)

\* the scan in hand is the one initMapper resolved the geometry from
GeometryFromThisScan == answers.init_called /\ got_first_scan_

\* |angle_min - angle_max| of the scan in hand
Span == Abs(scan.angle_min - scan.angle_max)

\* C21: after a successful geometry resolution with n beams the centered
\* beam-angle table has n entries, entry i (from 0) is
\* -|angle_min - angle_max|/2 + i * |angle_increment|, the table is in
\* increasing order, its first entry is -|angle_min - angle_max|/2 and its
\* last entry +|angle_min - angle_max|/2, so it is symmetric about zero.
C21_CenteredAngleTable ==
  GeometryFromThisScan =>
    LET n == Len(laser_angles_)
    IN /\ n = Len(scan.ranges)
       /\ \A i \in 1..n :
            2 * laser_angles_[i] = -Span + 2 * (i - 1) * Abs(scan.angle_increment)
       /\ \A i \in 1..(n - 1) : laser_angles_[i] < laser_angles_[i + 1]
       /\ 2 * laser_angles_[1] = -Span
       /\ 2 * laser_angles_[n] = Span
       /\ \A i \in 1..n : laser_angles_[i] = -laser_angles_[n - i + 1]

\* the positions of laserCallback after the correction has been stored
CorrectionStored ==
  {"corr_unlock", "map_check", "map_lock", "ret"} \cup Rebuilding

\* the transform t maps the pose o to the pose m: position to position,
\* heading to heading
MapsPose(t, o, m) ==
  /\ ~t.flip
  /\ t.origin[1] + RotBy(t, << o.x, o.y >>)[1] = m.x
  /\ t.origin[2] + RotBy(t, << o.x, o.y >>)[2] = m.y
  /\ Turn(t.yaw + o.theta) = m.theta

\* C22: after a scan is processed with best pose m and odometry pose o the
\* stored correction is inverse(rigid(o) * inverse(rigid(m))), that is
\* rigid(m) * inverse(rigid(o)): it is the identity when m = o, composed
\* with rigid(o) it gives rigid(m), and it carries the pose o to the pose m.
C22_CorrectionCarriesOdomToMap ==
  (outcome = "processed" /\ pc_scan \in CorrectionStored) =>
    /\ map_to_odom_ = XfInverse(XfMul(Rigid(odom_pose), XfInverse(Rigid(mpose))))
    /\ map_to_odom_ = XfMul(Rigid(mpose), XfInverse(Rigid(odom_pose)))
    /\ XfMul(map_to_odom_, Rigid(odom_pose)) = Rigid(mpose)
    /\ MapsPose(map_to_odom_, odom_pose, mpose)
    /\ mpose = odom_pose => map_to_odom_ = Identity

\* C22 witness: a correction that turns and shifts was stored, on the
\* second scan counted or a later one
C22_Witness ==
  /\ outcome = "processed"
  /\ pc_scan = "map_check"
  /\ mpose = Pose(1, 0, 1)
  /\ odom_pose = Pose(0, 2, 3)
  /\ map_to_odom_ = Xf(FALSE, 2, 1, 2)
  /\ laser_count_ >= 2

\* the positions of updateMap after the loop over the trajectory
WalkDone == {"map_resize", "map_raster", "map_finish"}

\* C23: in each rebuild updateMap follows the best particle's parent chain
\* from its leaf node to the root, visits every node of the chain once and
\* stops at the node with no parent; it registers into a working grid
\* constructed in this rebuild exactly the visited nodes that carry a
\* reading, in the order visited, and a node without a reading is logged
\* and passed over without ending the walk.
C23_WalkVisitsChainOnce ==
  /\ pc_scan = "map_build" => (smap = NoSmap /\ walk = NoWalk)
  /\ pc_scan \in WalkDone =>
       LET t == walk.tree
           v == walk.visited
           n == Len(v)
       IN /\ n >= 1
          /\ v[1] = t.leaf
          /\ \A i \in 1..(n - 1) : v[i + 1] = t.parent[v[i]]
          /\ t.parent[v[n]] = 0
          /\ \A i, j \in 1..n : v[i] = v[j] => i = j
          /\ walk.registered = SelectSeq(v, LAMBDA k : t.reading[k])
          /\ 818 \in log_scan <=> \E i \in 1..n : ~t.reading[v[i]]
          /\ (pc_scan = "map_resize" /\ walk.registered = << >>) =>
               /\ smap.wmin = << bounds_.xmin, bounds_.ymin >>
               /\ smap.wmax = << bounds_.xmax, bounds_.ymax >>

\* C23 witness: a second rebuild walked a chain of three nodes whose middle
\* node has no reading, and registered the other two
C23_Witness ==
  /\ pc_scan = "map_finish"
  /\ got_map_
  /\ walk.tree = [parent |-> << 0, 1, 2 >>, reading |-> << TRUE, FALSE, TRUE >>,
                  leaf |-> 3]
  /\ walk.visited = << 3, 2, 1 >>
  /\ walk.registered = << 3, 1 >>

\* the activities of the node that take a lock
Activities == {"scan", "tf", "srv"}

\* C24: under every interleaving of the scan callback, the map service and
\* the broadcast thread no activity holds map_to_odom_mutex_ and map_mutex_
\* at the same time: the scan callback has released the correction lock
\* before it starts a rebuild.  An activity that waits for a lock therefore
\* waits for a holder that is not itself waiting, and during a rebuild the
\* correction lock is free for the broadcast thread.
C24_LocksNeverNested ==
  /\ \A a \in Activities : ~(map_to_odom_mutex_ = a /\ map_mutex_ = a)
  /\ map_to_odom_mutex_ \in {"free", "scan", "tf"}
  /\ map_mutex_ \in {"free", "scan", "srv"}
  /\ pc_scan \in ({"map_check", "map_lock"} \cup Rebuilding) =>
       map_to_odom_mutex_ /= "scan"
  /\ (pc_scan = "corr_lock" /\ map_to_odom_mutex_ /= "free") =>
       (map_to_odom_mutex_ = "tf" /\ pc_tf \in ReadingCorrection)
  /\ (pc_scan = "map_lock" /\ map_mutex_ /= "free") =>
       (map_mutex_ = "srv" /\ pc_srv = "locked")
  /\ (pc_tf = "tick" /\ map_to_odom_mutex_ /= "free") =>
       (map_to_odom_mutex_ = "scan" /\ pc_scan \in WritingCorrection)
  /\ (pc_srv = "idle" /\ map_mutex_ /= "free") =>
       (map_mutex_ = "scan" /\ pc_scan \in Rebuilding)
  /\ (pc_tf = "tick" /\ pc_scan \in ({"map_lock"} \cup Rebuilding)) =>
       map_to_odom_mutex_ = "free"

\* C24 witness: a broadcast is being sent under the correction lock while
\* the scan callback, holding the map lock, rebuilds the grid
C24_Witness ==
  /\ pc_scan = "map_raster"
  /\ map_mutex_ = "scan"
  /\ pc_tf = "send"
  /\ map_to_odom_mutex_ = "tf"
  /\ pc_srv = "idle"

\* the rotation of the mount seen in this callback is a pure yaw, upward or
\* upside down
PureYaw == Abs(answers.e.mount.rzz) = UpOne

\* C25: for a planar-mounted sensor (rotation a pure yaw, upward or
\* upside down) the planar check of initMapper passes whatever the
\* translation of the sensor, also at a height other than zero: the up.z it
\* computes is +1 or -1 whatever laser_z is.
C25_PlanarMountPassesAtAnyHeight ==
  (MountSeen /\ PureYaw) =>
    /\ Abs(SeenUpZ) = UpOne
    /\ outcome /= "init_failed"
    /\ got_first_scan_

\* initMapper was called in this callback, both its lookups answered and
\* the mount passed the planar check of line 515
MountAccepted == MountSeen /\ Abs(Abs(SeenUpZ) - UpOne) <= PlanarTolerance

SettledInTime ==
  settled /\ ~got_first_scan_ /\ arrived + throttle_scans_ <= MaxScans

====
